---- MODULE Spec2Model ----
(***************************************************************************)
(* A model of S3_remote_cache.py: the S3 remote-cache backend              *)
(* (S3RemoteCacheBackend), the cache facade (S3RemoteCache) and the shared *)
(* S3 store they talk to.                                                  *)
(*                                                                         *)
(* Several backend instances (one per process) share one bucket.  Callers  *)
(* issue get/put calls on the instances; a call is split at the points     *)
(* where other calls can interleave: the enabled check, the store request  *)
(* and the handling of the store's answer.                                 *)
(*                                                                         *)
(* Strings are sequences of one-character strings.                         *)
(***************************************************************************)
EXTENDS Integers, Sequences, FiniteSets, TLC

\* ------------------------------------------------------------------ bounds

\* Number of distinct byte blobs the callers put.
NumVals == 2
\* Cap of the per-key count of object creations.
MaxCreates == 2
\* Longest stored blob the facade's get is applied to.
MaxBlobLen == 4

\* ------------------------------------------------------- program constants

\* version = 1
Version == 1

\* Python's None.
None == "None"

\* The backend instances, one per process, that share the store.
Backends == {"b1", "b2"}
\* The callers: each makes one call at a time, on any of the instances.
Calls == {"c1", "c2"}

\* The byte blobs the callers put: "1", "2", ...
Vals == {ToString(i) : i \in 1 .. NumVals}

\* The logical keys the callers use.
LogicalKeys == {<<"k">>, <<"k", "k">>}

\* The cache namespaces the facades are constructed with.
CacheIds == {<<"n">>}

\* TORCHINDUCTOR_REMOTE_CACHE_S3_REGION: unset, or a region name.
Regions == {None, "us-east-1", "eu-west-1"}
\* TORCHINDUCTOR_REMOTE_CACHE_S3_BUCKET: unset, or the shared bucket's name.
Buckets == {None, "bucket"}

\* ------------------------------------------------------------ Python values

\* The outcome of evaluating a Python expression: a value, or an exception.
Return(v) == [exc |-> None, value |-> v]
Raise(e) == [exc |-> e, value |-> <<>>]

Digit(d) == CASE d = 0 -> "0" [] d = 1 -> "1" [] d = 2 -> "2" [] d = 3 -> "3"
              [] d = 4 -> "4" [] d = 5 -> "5" [] d = 6 -> "6" [] d = 7 -> "7"
              [] d = 8 -> "8" [] d = 9 -> "9"

Digits == {"0", "1", "2", "3", "4", "5", "6", "7", "8", "9"}

DigitValue(c) == CHOOSE d \in 0 .. 9 : Digit(d) = c

\* str(n) for a natural number n.
RECURSIVE IntToStr(_)
IntToStr(n) == IF n < 10 THEN <<Digit(n)>>
               ELSE IntToStr(n \div 10) \o <<Digit(n % 10)>>

\* int(s) for a non-empty string of digits.
RECURSIVE StrToInt(_)
StrToInt(s) == IF Len(s) = 0 THEN 0
               ELSE 10 * StrToInt(SubSeq(s, 1, Len(s) - 1)) + DigitValue(s[Len(s)])

Spaces(n) == [j \in 1 .. n |-> " "]

\* The index of the first c in s at or after i, 0 when there is none.
RECURSIVE IndexFrom(_, _, _)
IndexFrom(s, c, i) == IF i > Len(s) THEN 0
                      ELSE IF s[i] = c THEN i
                      ELSE IndexFrom(s, c, i + 1)

\* format(value, spec) for a str value: the empty spec gives the value, a width
\* pads it on the right, any other spec of the alphabet used here is invalid.
FormatStr(value, spec) ==
    IF spec = <<>> THEN Return(value)
    ELSE IF (\A j \in 1 .. Len(spec) : spec[j] \in Digits) /\ spec[1] # "0"
         THEN Return(value \o Spaces(IF StrToInt(spec) > Len(value)
                                     THEN StrToInt(spec) - Len(value) ELSE 0))
         ELSE Raise("ValueError")

\* One replacement field of str.format(key=key): field is the text between the
\* braces.  The only argument is the keyword argument key.
FormatField(field, key) ==
    LET colon == IndexFrom(field, ":", 1)
        name  == IF colon = 0 THEN field ELSE SubSeq(field, 1, colon - 1)
        spec  == IF colon = 0 THEN <<>> ELSE SubSeq(field, colon + 1, Len(field))
    IN  IF IndexFrom(field, "{", 1) # 0 THEN Raise("ValueError")
        ELSE IF name = <<>> THEN Raise("IndexError")
        ELSE IF \A j \in 1 .. Len(name) : name[j] \in Digits THEN Raise("IndexError")
        ELSE IF name = <<"k", "e", "y">> THEN FormatStr(key, spec)
        ELSE Raise("KeyError")

\* The index of the brace that closes the field opened just before i
\* (nested braces are counted), 0 when the string ends first.
RECURSIVE FieldEnd(_, _, _)
FieldEnd(s, i, depth) ==
    IF i > Len(s) THEN 0
    ELSE IF s[i] = "{" THEN FieldEnd(s, i + 1, depth + 1)
    ELSE IF s[i] = "}" THEN (IF depth = 1 THEN i ELSE FieldEnd(s, i + 1, depth - 1))
    ELSE FieldEnd(s, i + 1, depth)

\* fmt.format(key=key) from position i on, out being the text produced so far.
RECURSIVE FormatFrom(_, _, _, _)
FormatFrom(fmt, i, key, out) ==
    IF i > Len(fmt) THEN Return(out)
    ELSE IF fmt[i] = "{" THEN
        IF i < Len(fmt) /\ fmt[i + 1] = "{"
        THEN FormatFrom(fmt, i + 2, key, Append(out, "{"))
        ELSE LET j == FieldEnd(fmt, i + 1, 1)
             IN  IF j = 0 THEN Raise("ValueError")
                 ELSE LET f == FormatField(SubSeq(fmt, i + 1, j - 1), key)
                      IN  IF f.exc # None THEN f
                          ELSE FormatFrom(fmt, j + 1, key, out \o f.value)
    ELSE IF fmt[i] = "}" THEN
        IF i < Len(fmt) /\ fmt[i + 1] = "}"
        THEN FormatFrom(fmt, i + 2, key, Append(out, "}"))
        ELSE Raise("ValueError")
    ELSE FormatFrom(fmt, i + 1, key, Append(out, fmt[i]))

\* str.format(key=key)
Format(fmt, key) == FormatFrom(fmt, 1, key, <<>>)

\* The key format without its replacement field for the logical key.
KeyFmtNoKey(cache_id, version) ==
    <<"p", "t", "2", ":">> \o cache_id \o <<":", ":">> \o <<":", "c">> \o IntToStr(version)

\* The key format without the version.
KeyFmtNoVersion(cache_id, version) ==
    <<"p", "t", "2", ":">> \o cache_id \o <<":", ":">> \o <<"{", "k", "e", "y", "}">>

\* The key format with the version tag "v" in place of "c".
KeyFmtTagV(cache_id, version) ==
    <<"p", "t", "2", ":">> \o cache_id \o <<":", ":">> \o <<"{", "k", "e", "y", "}">>
        \o <<":", "v">> \o IntToStr(version)

\* self._key_fmt = f"pt2:{cache_id}::{{key}}:c{version}"
KeyFmt(cache_id, version) ==
    <<"p", "t", "2", ":">> \o cache_id \o <<":", ":">> \o <<"{", "k", "e", "y", "}">>
        \o <<":", "c">> \o IntToStr(version)

\* The key formats and logical keys of the calls, formatted once.
KeyFmts == {KeyFmt(c, Version) : c \in CacheIds}
Formatted == [fmt \in KeyFmts, key \in LogicalKeys |-> Format(fmt, key)]

\* S3RemoteCache._get_key
GetKey(fmt, key) == IF <<fmt, key>> \in DOMAIN Formatted THEN Formatted[fmt, key]
                    ELSE Format(fmt, key)

\* The physical keys the callers of this model can produce.
PhysKeys == {GetKey(fmt, k).value : fmt \in KeyFmts, k \in LogicalKeys}

\* ------------------------------------------------------------------- state

VARIABLES
    boto3,          \* per process: TRUE when "import boto3" succeeded
    environ,        \* per process: os.environ's region and bucket settings
    constructed,    \* per instance: "no", "yes", or the exception __init__ raised
    s3_client,      \* per instance: self._s3_client (None, or "client")
    s3_region,      \* per instance: self._s3_region
    s3_bucket,      \* per instance: self._s3_bucket
    key_fmt,        \* per facade: self._key_fmt (<<>> before it is set)
    provision,      \* per instance: create_bucket's answer to __init__, None when
                    \* __init__ did not call it
    bucket_exists,  \* the store: TRUE when the shared bucket exists
    objects,        \* the store: physical key -> stored blob, or None
    creates,        \* the store: physical key -> number of times an object was created
    call,           \* per caller: the call in progress, or the last call's outcome
    probe           \* a function applied on its own: its arguments and its result

vars == <<boto3, environ, constructed, s3_client, s3_region, s3_bucket, key_fmt,
          provision, bucket_exists, objects, creates, call, probe>>

process_vars == <<boto3, environ>>
instance_vars == <<constructed, s3_client, s3_region, s3_bucket, key_fmt, provision>>
store_vars == <<bucket_exists, objects, creates>>

\* A caller that has made no call yet.
IdleCall == [pc |-> "idle", b |-> None, op |-> None, lkey |-> <<>>, key |-> <<>>,
             data |-> None, resp |-> None, exc |-> None]

\* No function is applied on its own.
NoProbe == <<>>

\* The error codes a botocore ClientError carries in this model.
ClientErrorCodes == {"NoSuchKey", "PreconditionFailed", "BucketAlreadyOwnedByYou",
                     "AccessDenied"}

\* ------------------------------------------------------------ construction
\* Besides ClientError the SDK raises exceptions that are not ClientError: here
\* "ReadTimeoutError" (a request that timed out) and "EndpointConnectionError"
\* (an endpoint that cannot be reached).

\* The answers the store can give to create_bucket: created, already ours
\* (us-east-1 answers 200 OK for that), another error, or no answer at all.
create_bucket(region) ==
    {"AccessDenied", "EndpointConnectionError"}
        \cup (IF bucket_exists THEN {"BucketAlreadyOwnedByYou"} ELSE {"Ok"})
        \cup (IF bucket_exists /\ region = "us-east-1" THEN {"Ok"} ELSE {})

\* except ClientError in __init__: what becomes of self._s3_client, and the
\* exception that leaves __init__, after create_bucket answered resp.
InitExcept(resp) ==
    IF resp = "Ok" THEN [s3_client |-> "client", exc |-> None]
    ELSE IF resp \in ClientErrorCodes
         THEN IF resp = "BucketAlreadyOwnedByYou"
              THEN [s3_client |-> "client", exc |-> None]
              ELSE [s3_client |-> None, exc |-> None]
         ELSE [s3_client |-> "client", exc |-> resp]

\* BackendInit without the check of the bucket setting: __init__ goes on to
\* create the client and the bucket when only the region is set.
BackendInitNoBucketCheck(has_boto3, env, resp) ==
    IF ~has_boto3
    THEN [exc |-> "RuntimeError", s3_client |-> None, s3_region |-> None,
          s3_bucket |-> None, provision |-> None]
    ELSE IF env.region = None
    THEN [exc |-> None, s3_client |-> None, s3_region |-> None,
          s3_bucket |-> None, provision |-> None]
    ELSE [exc |-> InitExcept(resp).exc, s3_client |-> InitExcept(resp).s3_client,
          s3_region |-> env.region, s3_bucket |-> env.bucket,
          provision |-> resp]

\* S3RemoteCacheBackend.__init__ in a process where boto3 is importable or not
\* and os.environ is env, create_bucket answering resp (when it is called): the
\* instance's fields, the exception raised, and create_bucket's answer.
BackendInit(has_boto3, env, resp) ==
    IF ~has_boto3
    THEN [exc |-> "RuntimeError", s3_client |-> None, s3_region |-> None,
          s3_bucket |-> None, provision |-> None]
    ELSE IF env.region = None
    THEN [exc |-> None, s3_client |-> None, s3_region |-> None,
          s3_bucket |-> None, provision |-> None]
    ELSE IF env.bucket = None
    THEN [exc |-> None, s3_client |-> None, s3_region |-> env.region,
          s3_bucket |-> None, provision |-> None]
    ELSE [exc |-> InitExcept(resp).exc, s3_client |-> InitExcept(resp).s3_client,
          s3_region |-> env.region, s3_bucket |-> env.bucket,
          provision |-> resp]

\* S3RemoteCache(cache_id) in process b: the backend's __init__, then the key format.
Construct(b) ==
    /\ constructed[b] = "no"
    /\ \E cache_id \in CacheIds, resp \in create_bucket(environ[b].region) :
        LET new == BackendInit(boto3[b], environ[b], resp)
        IN  /\ constructed' = [constructed EXCEPT ![b] =
                                  IF new.exc = None THEN "yes" ELSE new.exc]
            /\ s3_client' = [s3_client EXCEPT ![b] = new.s3_client]
            /\ s3_region' = [s3_region EXCEPT ![b] = new.s3_region]
            /\ s3_bucket' = [s3_bucket EXCEPT ![b] = new.s3_bucket]
            /\ provision' = [provision EXCEPT ![b] = new.provision]
            /\ key_fmt' = [key_fmt EXCEPT ![b] =
                              IF new.exc = None THEN KeyFmt(cache_id, Version) ELSE <<>>]
            /\ bucket_exists' = (bucket_exists \/ new.provision = "Ok")
    /\ UNCHANGED <<process_vars, objects, creates, call, probe>>

\* The processes before any of them has constructed its cache: each has boto3
\* or not, and some environment; the bucket may exist already.
InitConstruct ==
    /\ boto3 \in [Backends -> BOOLEAN]
    /\ environ \in [Backends -> [region : Regions, bucket : Buckets]]
    /\ constructed = [b \in Backends |-> "no"]
    /\ s3_client = [b \in Backends |-> None]
    /\ s3_region = [b \in Backends |-> None]
    /\ s3_bucket = [b \in Backends |-> None]
    /\ key_fmt = [b \in Backends |-> <<>>]
    /\ provision = [b \in Backends |-> None]
    /\ bucket_exists \in BOOLEAN
    /\ objects = [k \in PhysKeys |-> None]
    /\ creates = [k \in PhysKeys |-> 0]
    /\ call = [c \in Calls |-> IdleCall]
    /\ probe = NoProbe

NextConstruct == \E b \in Backends : Construct(b)

\* Construction alone: every process constructs its cache, in any order.
SpecConstruct == InitConstruct /\ [][NextConstruct]_vars

\* The environment of the processes whose calls are followed: fully configured.
CallEnv == [region |-> "eu-west-1", bucket |-> "bucket"]

\* The state after every process has constructed its cache in the environment
\* CallEnv, create_bucket having answered with "already owned" or with an error:
\* each backend is active or disabled.
Init ==
    /\ boto3 = [b \in Backends |-> TRUE]
    /\ environ = [b \in Backends |-> CallEnv]
    /\ constructed = [b \in Backends |-> "yes"]
    /\ \E resp \in [Backends -> {"BucketAlreadyOwnedByYou", "AccessDenied"}] :
        /\ s3_client = [b \in Backends |-> BackendInit(TRUE, CallEnv, resp[b]).s3_client]
        /\ s3_region = [b \in Backends |-> BackendInit(TRUE, CallEnv, resp[b]).s3_region]
        /\ s3_bucket = [b \in Backends |-> BackendInit(TRUE, CallEnv, resp[b]).s3_bucket]
        /\ provision = [b \in Backends |-> BackendInit(TRUE, CallEnv, resp[b]).provision]
    /\ key_fmt \in [Backends -> KeyFmts]
    /\ bucket_exists = TRUE
    /\ objects = [k \in PhysKeys |-> None]
    /\ creates = [k \in PhysKeys |-> 0]
    /\ call = [c \in Calls |-> IdleCall]
    /\ probe = NoProbe

\* ------------------------------------------------------------------- store

\* get_object that does not keep the keys apart: it answers with the object
\* stored under any key.
get_object_any_key(key) ==
    {[resp |-> "Ok", body |-> objects[k]] : k \in {j \in PhysKeys : objects[j] # None}}
        \cup (IF objects[key] = None THEN {[resp |-> "NoSuchKey", body |-> None]} ELSE {})
        \cup {[resp |-> "AccessDenied", body |-> None],
              [resp |-> "ReadTimeoutError", body |-> None]}

\* The answers the store can give to get_object(Key=key) followed by the read
\* of the body: the stored blob, NoSuchKey, another error code, or a timeout.
get_object(key) ==
    (IF objects[key] # None
     THEN {[resp |-> "Ok", body |-> objects[key]]}
     ELSE {[resp |-> "NoSuchKey", body |-> None]})
        \cup {[resp |-> "AccessDenied", body |-> None],
              [resp |-> "ReadTimeoutError", body |-> None]}

\* put_object without IfNoneMatch='*': the store overwrites an existing object.
put_object_unconditional(key) ==
    {[resp |-> "Ok", stored |-> TRUE],
     [resp |-> "ReadTimeoutError", stored |-> TRUE],
     [resp |-> "AccessDenied", stored |-> FALSE],
     [resp |-> "ReadTimeoutError", stored |-> FALSE]}

\* put_object that acknowledges a conditional create without storing the body.
put_object_unstored(key) ==
    (IF objects[key] = None
     THEN {[resp |-> "Ok", stored |-> FALSE],
           [resp |-> "ReadTimeoutError", stored |-> FALSE]}
     ELSE {[resp |-> "PreconditionFailed", stored |-> FALSE]})
        \cup {[resp |-> "AccessDenied", stored |-> FALSE]}

\* The answers the store can give to put_object(Key=key, IfNoneMatch='*'), and
\* whether it stored the body: a conditional create stores only where no object
\* exists and answers PreconditionFailed where one does; it can also fail with
\* another error code, or time out before or after storing.
put_object(key) ==
    (IF objects[key] = None
     THEN {[resp |-> "Ok", stored |-> TRUE],
           [resp |-> "ReadTimeoutError", stored |-> TRUE]}
     ELSE {[resp |-> "PreconditionFailed", stored |-> FALSE]})
        \cup {[resp |-> "AccessDenied", stored |-> FALSE],
              [resp |-> "ReadTimeoutError", stored |-> FALSE]}

\* --------------------------------------------------------------- the calls

\* _get and _put without the check of self._s3_client.
DisabledNeverChecked(b) == FALSE

\* if not self._s3_client: return
Disabled(b) == s3_client[b] = None

\* The call record of a call that has returned or raised: lkey is the logical
\* key the caller gave, key the physical key, data what a get returned (a put
\* returns nothing), resp the store's answer when a request was made, exc the
\* exception raised.
Returned(b, op, lkey, key, data, resp, exc) ==
    [pc |-> "ret", b |-> b, op |-> op, lkey |-> lkey, key |-> key, data |-> data,
     resp |-> resp, exc |-> exc]

\* The call record of a call in progress.
InProgress(pc, b, op, lkey, key, data, resp) ==
    [pc |-> pc, b |-> b, op |-> op, lkey |-> lkey, key |-> key, data |-> data,
     resp |-> resp, exc |-> None]

\* The start of a call op(key[, data]) on facade b: the physical key, then the
\* backend's enabled check.
Enter(b, op, key, data) ==
    LET pk == GetKey(key_fmt[b], key)
    IN  IF pk.exc # None THEN Returned(b, op, key, <<>>, None, None, pk.exc)
        ELSE IF Disabled(b)
             THEN Returned(b, op, key, pk.value, None, None, None)
             ELSE InProgress(IF op = "get" THEN "get_req" ELSE "put_req",
                             b, op, key, pk.value, data, None)

\* The except clause of _get without the NoSuchKey case: every ClientError
\* disables the backend.
GetExceptNoBenign(resp) ==
    IF resp = "Ok" THEN [disable |-> FALSE, exc |-> None]
    ELSE IF resp \in ClientErrorCodes
         THEN [disable |-> TRUE, exc |-> None]
         ELSE [disable |-> FALSE, exc |-> resp]

\* except ClientError in _get: whether it disables the backend, and the
\* exception that leaves _get, after the store answered resp.
GetExcept(resp) ==
    IF resp = "Ok" THEN [disable |-> FALSE, exc |-> None]
    ELSE IF resp \in ClientErrorCodes
         THEN IF resp = "NoSuchKey"
              THEN [disable |-> FALSE, exc |-> None]
              ELSE [disable |-> TRUE, exc |-> None]
         ELSE [disable |-> FALSE, exc |-> resp]

\* The except clause of _put without the PreconditionFailed case: every
\* ClientError disables the backend.
PutExceptNoBenign(resp) ==
    IF resp = "Ok" THEN [disable |-> FALSE, exc |-> None]
    ELSE IF resp \in ClientErrorCodes
         THEN [disable |-> TRUE, exc |-> None]
         ELSE [disable |-> FALSE, exc |-> resp]

\* except ClientError in _put: whether it disables the backend, and the
\* exception that leaves _put, after the store answered resp.
PutExcept(resp) ==
    IF resp = "Ok" THEN [disable |-> FALSE, exc |-> None]
    ELSE IF resp \in ClientErrorCodes
         THEN IF resp = "PreconditionFailed"
              THEN [disable |-> FALSE, exc |-> None]
              ELSE [disable |-> TRUE, exc |-> None]
         ELSE [disable |-> FALSE, exc |-> resp]

\* S3RemoteCache._get(key) up to the backend's enabled check.
CacheGet(c, b, key) ==
    /\ call[c].pc \in {"idle", "ret"}
    /\ constructed[b] = "yes"
    /\ call' = [call EXCEPT ![c] = Enter(b, "get", key, None)]
    /\ UNCHANGED <<process_vars, instance_vars, store_vars, probe>>

\* self._s3_client.get_object(...) and stream.read(): the attribute is read
\* again, and the store answers.
GetObject(c) ==
    /\ call[c].pc = "get_req"
    /\ LET cur == call[c]
       IN  IF s3_client[cur.b] = None
           THEN call' = [call EXCEPT ![c] =
                            Returned(cur.b, "get", cur.lkey, cur.key, None, None,
                                     "AttributeError")]
           ELSE \E r \in get_object(cur.key) :
                    call' = [call EXCEPT ![c] =
                                InProgress("get_resp", cur.b, "get", cur.lkey, cur.key,
                                           r.body, r.resp)]
    /\ UNCHANGED <<process_vars, instance_vars, store_vars, probe>>

\* The rest of _get: the except clause, the assert and the return.
GetReturn(c) ==
    /\ call[c].pc = "get_resp"
    /\ LET cur == call[c]
           h == GetExcept(cur.resp)
       IN  /\ s3_client' = [s3_client EXCEPT ![cur.b] = IF h.disable THEN None ELSE @]
           /\ call' = [call EXCEPT ![c] =
                          Returned(cur.b, "get", cur.lkey, cur.key, cur.data, cur.resp,
                                   h.exc)]
    /\ UNCHANGED <<process_vars, constructed, s3_region, s3_bucket, key_fmt, provision,
                   store_vars, probe>>

\* S3RemoteCache._put(key, value) up to the backend's enabled check.
CachePut(c, b, key, data) ==
    /\ call[c].pc \in {"idle", "ret"}
    /\ constructed[b] = "yes"
    /\ call' = [call EXCEPT ![c] = Enter(b, "put", key, data)]
    /\ UNCHANGED <<process_vars, instance_vars, store_vars, probe>>

\* self._s3_client.put_object(..., IfNoneMatch='*'): the attribute is read
\* again, and the store answers.
PutObject(c) ==
    /\ call[c].pc = "put_req"
    /\ LET cur == call[c]
       IN  IF s3_client[cur.b] = None
           THEN /\ call' = [call EXCEPT ![c] =
                               Returned(cur.b, "put", cur.lkey, cur.key, None, None,
                                        "AttributeError")]
                /\ UNCHANGED <<objects, creates>>
           ELSE \E r \in put_object(cur.key) :
                    /\ r.stored => creates[cur.key] < MaxCreates
                    /\ objects' = [objects EXCEPT ![cur.key] =
                                      IF r.stored THEN cur.data ELSE @]
                    /\ creates' = [creates EXCEPT ![cur.key] =
                                      IF r.stored THEN @ + 1 ELSE @]
                    /\ call' = [call EXCEPT ![c] =
                                   InProgress("put_resp", cur.b, "put", cur.lkey,
                                              cur.key, cur.data, r.resp)]
    /\ UNCHANGED <<process_vars, instance_vars, bucket_exists, probe>>

\* The rest of _put: the except clause and the return.
PutReturn(c) ==
    /\ call[c].pc = "put_resp"
    /\ LET cur == call[c]
           h == PutExcept(cur.resp)
       IN  /\ s3_client' = [s3_client EXCEPT ![cur.b] = IF h.disable THEN None ELSE @]
           /\ call' = [call EXCEPT ![c] =
                          Returned(cur.b, "put", cur.lkey, cur.key, None, cur.resp,
                                   h.exc)]
    /\ UNCHANGED <<process_vars, constructed, s3_region, s3_bucket, key_fmt, provision,
                   store_vars, probe>>

\* ------------------------------------------------------------ specification

Next ==
    \/ \E c \in Calls, b \in Backends, key \in LogicalKeys : CacheGet(c, b, key)
    \/ \E c \in Calls : GetObject(c)
    \/ \E c \in Calls : GetReturn(c)
    \/ \E c \in Calls, b \in Backends, key \in LogicalKeys, data \in Vals :
           CachePut(c, b, key, data)
    \/ \E c \in Calls : PutObject(c)
    \/ \E c \in Calls : PutReturn(c)

Spec == Init /\ [][Next]_vars

\* ------------------------------------------------- the key scheme on its own

\* The non-empty strings of at most two characters of chars.
Strings(chars) == {<<a>> : a \in chars} \cup {<<a, b>> : a \in chars, b \in chars}

\* The cache ids the key scheme is applied to: plain, made of separator
\* characters and braces, or a replacement field.
Namespaces == Strings({":", "{", "}"}) \cup {<<"n">>, <<"{", "k", "e", "y", "}">>}

\* The logical keys the key scheme is applied to: plain, made of separator
\* characters, or ending like a physical key.
SchemeKeys == Strings({"k", ":"}) \cup {<<":", "c", "1">>, <<"k", ":", "c", "2">>}

\* The values of the version constant, one per release of the key scheme.
Versions == {1, 2}

\* The arguments of one application of the key scheme.
SchemeArgs == [cache_id : Namespaces, key : SchemeKeys, version : Versions]

\* S3RemoteCache(cache_id)._get_key(key), the version constant being version.
PhysicalKey(t) == GetKey(KeyFmt(t.cache_id, t.version), t.key)

\* Two applications of the key scheme, not computed yet; no process has
\* constructed a cache.
InitKey ==
    /\ probe \in [a : SchemeArgs, b : SchemeArgs]
    /\ boto3 = [b \in Backends |-> TRUE]
    /\ environ = [b \in Backends |-> CallEnv]
    /\ constructed = [b \in Backends |-> "no"]
    /\ s3_client = [b \in Backends |-> None]
    /\ s3_region = [b \in Backends |-> None]
    /\ s3_bucket = [b \in Backends |-> None]
    /\ key_fmt = [b \in Backends |-> <<>>]
    /\ provision = [b \in Backends |-> None]
    /\ bucket_exists = TRUE
    /\ objects = [k \in PhysKeys |-> None]
    /\ creates = [k \in PhysKeys |-> 0]
    /\ call = [c \in Calls |-> IdleCall]

\* Both physical keys are computed.
ComputeKeys ==
    /\ DOMAIN probe = {"a", "b"}
    /\ probe' = [a |-> probe.a, b |-> probe.b,
                 ka |-> PhysicalKey(probe.a), kb |-> PhysicalKey(probe.b)]
    /\ UNCHANGED <<process_vars, instance_vars, store_vars, call>>

NextKey == ComputeKeys

\* The key scheme alone, applied to two argument triples.
SpecKey == InitKey /\ [][NextKey]_vars

\* ------------------------------------- the facade's get after the backend

\* The characters of the stored blobs: enough for JSON numbers and lists, for
\* truncated and for otherwise malformed documents.
JsonChars == {"1", "[", "]"}

\* The blobs of n characters.
RECURSIVE BlobsOfLen(_)
BlobsOfLen(n) == IF n = 0 THEN {<<>>}
                 ELSE {Append(s, c) : s \in BlobsOfLen(n - 1), c \in JsonChars}

\* What the backend's _get can return to the facade: None, or the bytes read
\* from the object, whoever wrote them.
BackendResults ==
    {[found |-> FALSE, body |-> <<>>]}
        \cup {[found |-> TRUE, body |-> s] : s \in UNION {BlobsOfLen(n) : n \in 0 .. MaxBlobLen}}

\* RemoteCacheJsonSerde().decode(data), that is json.loads(data), for a text of
\* JsonChars: a number, or a list (which has at most one element, there being
\* no comma); any other text raises JSONDecodeError.
RECURSIVE JsonLoads(_)
JsonLoads(s) ==
    IF s # <<>> /\ \A i \in 1 .. Len(s) : s[i] = "1"
    THEN Return([number |-> StrToInt(s)])
    ELSE IF Len(s) >= 2 /\ s[1] = "[" /\ s[Len(s)] = "]"
    THEN LET inner == SubSeq(s, 2, Len(s) - 1)
         IN  IF inner = <<>> THEN Return([list |-> <<>>])
             ELSE LET v == JsonLoads(inner)
                  IN  IF v.exc # None THEN v ELSE Return([list |-> <<v.value>>])
    ELSE Raise("JSONDecodeError")

\* return super()._get(key, sample), the backend having returned r: nothing
\* (None or no bytes) gives None, bytes are decoded, and what the decoding
\* raises is raised to the caller of S3RemoteCache._get.
SuperGet(r) == IF ~r.found \/ r.body = <<>> THEN Return(None) ELSE JsonLoads(r.body)

\* A backend result the facade's get has not dealt with yet; no process has
\* constructed a cache.
InitDecode ==
    /\ probe \in [backend : BackendResults]
    /\ boto3 = [b \in Backends |-> TRUE]
    /\ environ = [b \in Backends |-> CallEnv]
    /\ constructed = [b \in Backends |-> "no"]
    /\ s3_client = [b \in Backends |-> None]
    /\ s3_region = [b \in Backends |-> None]
    /\ s3_bucket = [b \in Backends |-> None]
    /\ key_fmt = [b \in Backends |-> <<>>]
    /\ provision = [b \in Backends |-> None]
    /\ bucket_exists = TRUE
    /\ objects = [k \in PhysKeys |-> None]
    /\ creates = [k \in PhysKeys |-> 0]
    /\ call = [c \in Calls |-> IdleCall]

\* S3RemoteCache._get returns what the inherited _get makes of the backend's
\* result.
GetDecoded ==
    /\ DOMAIN probe = {"backend"}
    /\ probe' = [backend |-> probe.backend, result |-> SuperGet(probe.backend)]
    /\ UNCHANGED <<process_vars, instance_vars, store_vars, call>>

NextDecode == GetDecoded

\* The facade's handling of a backend result alone.
SpecDecode == InitDecode /\ [][NextDecode]_vars

\* ------------------------------------------------------------------ claims

\* A get whose request the store answered with the object.
GotObject(c) == call[c].op = "get" /\ call[c].resp = "Ok"

\* Every get the store answered with an object holds exactly the blob stored
\* under its key, and has raised nothing.
GetsHoldStoredContent ==
    \A c \in Calls : GotObject(c) =>
        /\ call[c].exc = None
        /\ call[c].data # None
        /\ call[c].data = objects[call[c].key]

\* C1: write-once.  Whatever puts the callers of any instance make, in any
\* interleaving, an object that exists under a physical key is never changed,
\* and every get the store answers with the object returns that first-written
\* content: after put(k, v1) created the object, a put(k, v2) changes nothing
\* and a get(k) returns v1.
C1_WriteOnce ==
    /\ GetsHoldStoredContent
    /\ [][/\ \A k \in PhysKeys : objects[k] # None => objects'[k] = objects[k]
          /\ GetsHoldStoredContent']_vars

\* C1's case: the object holds v1, a put of another value v2 for the same key
\* was answered "exists", and a get of the key has returned v1.
C1_Witness ==
    \E c1, c2 \in Calls :
        /\ call[c1].pc = "put_resp" /\ call[c1].resp = "PreconditionFailed"
        /\ objects[call[c1].key] # None
        /\ call[c1].data # objects[call[c1].key]
        /\ call[c2].pc = "ret" /\ GotObject(c2) /\ call[c2].key = call[c1].key
        /\ call[c2].exc = None
        /\ call[c2].data = objects[call[c1].key]

\* C2: a disabled backend stays disabled whatever happens next, and a call
\* that starts on a disabled backend returns at once: absent for a get, nothing
\* for a put, with no store request, no exception and the store unchanged.
C2_DisabledForGood ==
    [][/\ \A b \in Backends : s3_client[b] = None => s3_client'[b] = None
       /\ \A c \in Calls :
            (/\ call[c].pc \in {"idle", "ret"}
             /\ call'[c] # call[c]
             /\ s3_client[call'[c].b] = None)
            => /\ call'[c].pc = "ret"
               /\ call'[c].resp = None
               /\ call'[c].exc = None
               /\ call'[c].data = None
               /\ objects' = objects
               /\ creates' = creates]_vars

\* C2's case: a store error has disabled a backend, and a put made on it
\* afterwards has returned without a request.
C2_Witness ==
    \E c1, c2 \in Calls :
        /\ call[c1].pc = "ret" /\ call[c1].resp = "AccessDenied"
        /\ s3_client[call[c1].b] = None
        /\ call[c2].pc = "ret" /\ call[c2].b = call[c1].b /\ call[c2].op = "put"
        /\ call[c2].resp = None /\ call[c2].exc = None

\* The store errors that are not benign: on a get every error but NoSuchKey,
\* on a put every error but PreconditionFailed.
StoreError(c) ==
    /\ call[c].resp \notin {None, "Ok"}
    /\ call[c].op = "get" => call[c].resp # "NoSuchKey"
    /\ call[c].op = "put" => call[c].resp # "PreconditionFailed"

\* C3: a call whose store request failed with an error that is not benign
\* raises nothing: it has disabled the backend and returned absent (get) or
\* nothing (put).
C3_StoreErrorsAbsorbed ==
    \A c \in Calls : (call[c].pc = "ret" /\ StoreError(c)) =>
        /\ call[c].exc = None
        /\ call[c].data = None
        /\ s3_client[call[c].b] = None

\* C4: calls made in parallel on one instance are safe in every interleaving:
\* no call goes through a missing store client (None.get_object,
\* None.put_object) and raises for it.
C4_ParallelCallsSafe ==
    \A c \in Calls : call[c].exc # "AttributeError"

\* C5: whatever puts race for a physical key, at most one of them creates the
\* object: an object was created at most once, no two puts were both answered
\* "created" for one key, and a put answered "exists" found an object there.
C5_AtMostOneCreate ==
    /\ \A k \in PhysKeys : creates[k] <= 1 /\ (creates[k] = 0 <=> objects[k] = None)
    /\ \A c1, c2 \in Calls :
          (/\ c1 # c2
           /\ call[c1].op = "put" /\ call[c1].resp = "Ok"
           /\ call[c2].op = "put" /\ call[c2].resp = "Ok")
          => call[c1].key # call[c2].key
    /\ \A c \in Calls :
          (call[c].op = "put" /\ call[c].resp = "PreconditionFailed")
          => objects[call[c].key] # None

\* C5's case: two puts from different processes raced for one key; one was
\* answered "created", the other "exists".
C5_Witness ==
    \E c1, c2 \in Calls :
        /\ call[c1].b # call[c2].b
        /\ call[c1].pc = "put_resp" /\ call[c1].resp = "Ok"
        /\ call[c2].pc = "put_resp" /\ call[c2].resp = "PreconditionFailed"
        /\ call[c1].key = call[c2].key

\* A put the store answered with "created" or with "exists".
PutAnswered(c) ==
    call[c].op = "put" /\ call[c].resp \in {"Ok", "PreconditionFailed"}

\* Two puts of one value under one key, both answered, one of them with "created":
\* the stored value is that value; and an answered put that has returned has
\* raised nothing.
SameValuePutsStored ==
    /\ \A c1, c2 \in Calls :
          (/\ c1 # c2
           /\ call[c1].pc = "put_resp" /\ call[c2].pc = "put_resp"
           /\ PutAnswered(c1) /\ PutAnswered(c2)
           /\ "Ok" \in {call[c1].resp, call[c2].resp}
           /\ call[c1].key = call[c2].key
           /\ call[c1].data = call[c2].data)
          => objects[call[c1].key] = call[c1].data
    /\ \A c \in Calls : (call[c].pc = "ret" /\ PutAnswered(c)) => call[c].exc = None

\* C6: two callers that put the same value under the same namespace and key at
\* the same time both return normally, neither with an error nor with its
\* backend disabled by the call, and the stored value is that value.
C6_SameValuePuts ==
    /\ SameValuePutsStored
    /\ [][/\ SameValuePutsStored'
          /\ \A c \in Calls :
                (call[c].pc = "put_resp" /\ PutAnswered(c) /\ call'[c] # call[c])
                => /\ call'[c].pc = "ret"
                   /\ call'[c].exc = None
                   /\ s3_client' = s3_client
                   /\ objects' = objects]_vars

\* C6's case: two puts of one value under one key were in progress together;
\* the one answered "created" has returned, the other was answered "exists".
C6_Witness ==
    \E c1, c2 \in Calls :
        /\ call[c1].pc = "ret" /\ call[c1].op = "put" /\ call[c1].resp = "Ok"
        /\ call[c1].exc = None
        /\ call[c2].pc = "put_resp" /\ call[c2].resp = "PreconditionFailed"
        /\ call[c2].key = call[c1].key
        /\ call[c2].data = objects[call[c1].key]
        /\ s3_client[call[c1].b] # None /\ s3_client[call[c2].b] # None

\* C7: a get or put whose store request timed out raises nothing: it has
\* disabled the backend and returned absent (get) or nothing (put).
C7_TimeoutsAbsorbed ==
    \A c \in Calls : (call[c].pc = "ret" /\ call[c].resp = "ReadTimeoutError") =>
        /\ call[c].exc = None
        /\ call[c].data = None
        /\ s3_client[call[c].b] = None

\* The region or the bucket setting is missing from the environment of b.
ConfigMissing(b) == environ[b].region = None \/ environ[b].bucket = None

\* C8: where boto3 is available, constructing a backend with the region or
\* the bucket setting missing raises nothing and gives a disabled backend,
\* and neither a client nor a create_bucket request was made.
C8_MissingConfigDisables ==
    \A b \in Backends :
        (constructed[b] # "no" /\ boto3[b] /\ ConfigMissing(b)) =>
            /\ constructed[b] = "yes"
            /\ s3_client[b] = None
            /\ provision[b] = None

\* C8's case: a backend constructed with the region set and the bucket missing.
C8_Witness ==
    \E b \in Backends :
        /\ constructed[b] = "yes" /\ boto3[b]
        /\ environ[b].region # None /\ environ[b].bucket = None
        /\ s3_client[b] = None /\ provision[b] = None

\* C9: with the full configuration the constructor asks the store to create
\* the bucket and raises nothing: after "created" or "already owned by you"
\* the backend is active, after any other provisioning error it is disabled.
C9_ProvisioningOutcome ==
    \A b \in Backends :
        (constructed[b] # "no" /\ boto3[b] /\ ~ConfigMissing(b)) =>
            /\ provision[b] # None
            /\ constructed[b] = "yes"
            /\ provision[b] \in {"Ok", "BucketAlreadyOwnedByYou"} => s3_client[b] # None
            /\ provision[b] \notin {"Ok", "BucketAlreadyOwnedByYou"} => s3_client[b] = None

\* C10: the constructor raises if and only if boto3 is unavailable.
C10_RaisesIffNoCapability ==
    \A b \in Backends :
        constructed[b] # "no" => (constructed[b] # "yes" <=> ~boto3[b])

\* A put and a get made through one cache namespace for one logical key.
SameEntry(c1, c2) ==
    /\ call[c1].op = "put" /\ call[c2].op = "get"
    /\ key_fmt[call[c1].b] = key_fmt[call[c2].b]
    /\ call[c1].lkey = call[c2].lkey

\* A put and a get of one entry address one physical key, and where the put
\* created the object with v, a get the store answered with the object holds v
\* and has raised nothing.
RoundTrip ==
    \A c1, c2 \in Calls : SameEntry(c1, c2) =>
        /\ (call[c1].key # <<>> /\ call[c2].key # <<>>) => call[c1].key = call[c2].key
        /\ (call[c1].pc = "put_resp" /\ call[c1].resp = "Ok" /\ call[c2].resp = "Ok")
           => call[c2].data = call[c1].data /\ call[c2].exc = None

\* C11: round trip.  Where no entry existed for a key and a put(k, v) on an
\* active backend created it, a get(k) made afterwards through the same cache
\* namespace that the store answers is answered with the object, never with
\* "no such key", and returns v: the put and the get address the same
\* physical key and the bytes come back unchanged.
C11_PutThenGet ==
    /\ RoundTrip
    /\ [][/\ RoundTrip'
          /\ \A c2 \in Calls : (call[c2].pc = "get_req" /\ call'[c2].pc = "get_resp") =>
                \A c1 \in Calls : (call[c1].resp = "Ok" /\ SameEntry(c1, c2)) =>
                    /\ call'[c2].resp # "NoSuchKey"
                    /\ call'[c2].resp = "Ok" => call'[c2].data = objects[call[c1].key]
          /\ \A c \in Calls :
                (call[c].pc = "get_resp" /\ call[c].resp = "Ok" /\ call'[c] # call[c])
                => /\ call'[c].pc = "ret"
                   /\ call'[c].exc = None
                   /\ call'[c].data = call[c].data]_vars

\* C11's case: a put created the object with v and has returned, and a get of
\* the same logical key started afterwards on another instance has returned v.
C11_Witness ==
    \E c1, c2 \in Calls :
        /\ SameEntry(c1, c2) /\ call[c1].b # call[c2].b
        /\ call[c1].pc = "ret" /\ call[c1].resp = "Ok" /\ call[c1].exc = None
        /\ call[c2].pc = "ret" /\ call[c2].resp = "Ok" /\ call[c2].exc = None
        /\ call[c2].data # None
        /\ call[c2].data = objects[call[c1].key]

\* A call whose store request was answered with the benign outcome of its
\* operation: "no such key" for a get, "exists" for a put.
Benign(c) ==
    \/ call[c].op = "get" /\ call[c].resp = "NoSuchKey"
    \/ call[c].op = "put" /\ call[c].resp = "PreconditionFailed"

\* C12: benign outcomes do not degrade.  A get answered "no such key" returns
\* absent and a put answered "exists" returns as a no-op: neither raises, no
\* backend is disabled by it (an active backend stays active) and the store
\* is unchanged; and no step of a get ever modifies the store.
C12_BenignOutcomes ==
    [][/\ \A c \in Calls :
            (call[c].pc \in {"get_resp", "put_resp"} /\ Benign(c) /\ call'[c] # call[c])
            => /\ call'[c].pc = "ret"
               /\ call'[c].exc = None
               /\ call'[c].data = None
               /\ s3_client' = s3_client
               /\ objects' = objects
               /\ creates' = creates
       /\ \A c \in Calls :
            (call'[c] # call[c] /\ call'[c].op = "get")
            => objects' = objects /\ creates' = creates]_vars

\* C12's case: a get of a missing key has returned absent and a put onto an
\* existing key has returned, both on one instance, which is still active.
C12_Witness ==
    \E c1, c2 \in Calls :
        /\ call[c1].b = call[c2].b
        /\ call[c1].pc = "ret" /\ call[c1].op = "get" /\ Benign(c1)
        /\ call[c1].data = None /\ call[c1].exc = None
        /\ call[c2].pc = "ret" /\ call[c2].op = "put" /\ Benign(c2)
        /\ call[c2].exc = None
        /\ s3_client[call[c1].b] # None

\* Both physical keys of the key scheme's two applications are computed.
Computed == DOMAIN probe = {"a", "b", "ka", "kb"}

\* The string s contains no brace.
BraceFree(s) == \A i \in 1 .. Len(s) : s[i] \notin {"{", "}"}

\* The text "pt2:<cache_id>::<key>:<tag><version>" for the arguments t.
KeyText(t, tag) ==
    <<"p", "t", "2", ":">> \o t.cache_id \o <<":", ":">> \o t.key \o <<":", tag>>
        \o IntToStr(t.version)

\* C13: the physical key is a function of (namespace, logical key, version)
\* that gives the same key for the same arguments and different keys for
\* different arguments, separator characters in the namespace and the logical
\* key included.
C13_KeyDeterminesArguments ==
    (/\ Computed
     /\ BraceFree(probe.a.cache_id) /\ BraceFree(probe.b.cache_id)
     /\ probe.ka.exc = None /\ probe.kb.exc = None)
    => (probe.a = probe.b <=> probe.ka.value = probe.kb.value)

\* C14: for one namespace and one version, two different logical keys never
\* get the same physical key, whatever separator characters they contain.
C14_InjectiveOverKeys ==
    (/\ Computed
     /\ probe.a.cache_id = probe.b.cache_id
     /\ probe.a.version = probe.b.version
     /\ probe.a.key # probe.b.key
     /\ probe.ka.exc = None /\ probe.kb.exc = None)
    => probe.ka.value # probe.kb.value

\* C14's case: the physical keys of the logical keys ":" and "::" in the
\* namespace ":" are computed, and differ.
C14_Witness ==
    /\ Computed
    /\ probe.a.cache_id = <<":">> /\ probe.b.cache_id = <<":">>
    /\ probe.a.version = probe.b.version
    /\ probe.a.key = <<":">> /\ probe.b.key = <<":", ":">>
    /\ probe.ka.exc = None /\ probe.kb.exc = None
    /\ probe.ka.value # probe.kb.value

\* C15: for one namespace, the physical keys of two different versions never
\* coincide, whatever the two logical keys are.
C15_VersionsDisjoint ==
    (/\ Computed
     /\ probe.a.cache_id = probe.b.cache_id
     /\ probe.a.version # probe.b.version
     /\ probe.ka.exc = None /\ probe.kb.exc = None)
    => probe.ka.value # probe.kb.value

\* C15's case: versions 2 and 1 of one namespace, the logical key of version 2
\* being the one of version 1 followed by ":c1"-like text.
C15_Witness ==
    /\ Computed
    /\ probe.a.cache_id = <<"n">> /\ probe.b.cache_id = <<"n">>
    /\ probe.a.version = 1 /\ probe.b.version = 2
    /\ probe.a.key = <<"k", ":", "c", "2">> /\ probe.b.key = <<"k">>
    /\ probe.ka.exc = None /\ probe.kb.exc = None
    /\ probe.ka.value # probe.kb.value

\* C16 as stated: the physical key is exactly "pt2:", the namespace, "::", the
\* logical key, ":v" and the version.
C16_KeyTextTagV ==
    Computed => /\ probe.ka = Return(KeyText(probe.a, "v"))
                /\ probe.kb = Return(KeyText(probe.b, "v"))

\* C16: for a namespace without braces, the physical key is exactly "pt2:",
\* the namespace, "::", the logical key, ":c" and the version.
C16_KeyTextTagC ==
    Computed => /\ BraceFree(probe.a.cache_id) => probe.ka = Return(KeyText(probe.a, "c"))
                /\ BraceFree(probe.b.cache_id) => probe.kb = Return(KeyText(probe.b, "c"))

\* C16's case: the physical key of logical key "k" in namespace "n", version 1,
\* is computed: "pt2:n::k:c1".
C16_Witness ==
    /\ Computed
    /\ probe.a = [cache_id |-> <<"n">>, key |-> <<"k">>, version |-> 1]
    /\ probe.ka.exc = None
    /\ probe.ka.value = <<"p", "t", "2", ":", "n", ":", ":", "k", ":", "c", "1">>

\* C17: a facade get whose backend returned bytes that do not decode raises
\* nothing: it returns absent.
C17_DecodeFailsClosed ==
    DOMAIN probe = {"backend", "result"} => probe.result.exc = None

\* What every get holds is absent or the whole blob stored under its own
\* physical key.
GetsHoldOwnObject ==
    \A c \in Calls : call[c].op = "get" =>
        \/ call[c].data = None
        \/ call[c].data \in Vals /\ call[c].data = objects[call[c].key]

\* C18: a get that runs while puts to its physical key are in progress returns
\* absent or exactly the whole blob that a put stored under that key: every
\* stored blob is the complete value of a put made for that key, and a get
\* holds, and returns, nothing else, in particular not the blob of another key.
C18_GetsSeeWholeObjects ==
    /\ GetsHoldOwnObject
    /\ [][/\ GetsHoldOwnObject'
          /\ \A k \in PhysKeys : objects'[k] # objects[k] =>
                \E c \in Calls : /\ call[c].pc = "put_req" /\ call'[c].pc = "put_resp"
                                 /\ call[c].key = k
                                 /\ objects'[k] = call[c].data
                                 /\ call[c].data \in Vals
          /\ \A c \in Calls :
                (call[c].pc = "get_resp" /\ call'[c] # call[c])
                => call'[c].pc = "ret" /\ call'[c].data = call[c].data]_vars

\* C18's case: a get was answered with v while a put of another value to its
\* key, answered "exists", was in progress; another key holds another blob.
C18_Witness ==
    \E c1, c2 \in Calls, k \in PhysKeys :
        /\ call[c1].pc = "get_resp" /\ call[c1].resp = "Ok"
        /\ call[c1].data = objects[call[c1].key]
        /\ call[c2].pc = "put_resp" /\ call[c2].key = call[c1].key
        /\ call[c2].resp = "PreconditionFailed" /\ call[c2].data # call[c1].data
        /\ k # call[c1].key
        /\ objects[k] \notin {None, call[c1].data}

\* C19: when calls that are in progress together on one instance each
\* received a store error that is not benign, the transition to disabled is
\* harmless: from the first of them that has returned on, the backend is
\* disabled, and that call has raised nothing and returned absent (get) or
\* nothing (put).
C19_RacingFailuresDisable ==
    \A c1, c2 \in Calls :
        (/\ c1 # c2
         /\ call[c1].b = call[c2].b
         /\ StoreError(c1) /\ StoreError(c2)
         /\ call[c1].pc = "ret"
         /\ call[c2].pc \in {"get_resp", "put_resp"})
        => /\ call[c1].exc = None
           /\ call[c1].data = None
           /\ s3_client[call[c1].b] = None

\* C20: for every namespace, braces included, computing the physical key
\* raises nothing, and the key holds the namespace verbatim and the logical key
\* in the logical-key position only.
C20_BracesVerbatim ==
    Computed => /\ probe.ka.exc = None
                /\ probe.ka.value = KeyText(probe.a, "c")

====
